---- MODULE Spec2Model ----
(***************************************************************************)
(* A model of the rusty-chip CHIP-8 interpreter (src/src/chip8.rs) and of  *)
(* the part of its SDL2 driver (src/src/chip8_sdl2_gui.rs) that loads the  *)
(* program image and feeds the keypad.                                     *)
(*                                                                         *)
(* The machine is the struct Chip8.  Every handler of chip8.rs is an       *)
(* operator that maps a machine record to the machine record the handler   *)
(* leaves behind; a Rust panic! (explicit, or an out-of-range index) is    *)
(* the field "failure" becoming something else than NoFailure, after which *)
(* the process is dead and no action is enabled.                           *)
(***************************************************************************)
EXTENDS Integers, Sequences, FiniteSets, TLC

VARIABLES
    memory,           \* Chip8.memory: [u8; 4096], kept as the map of its nonzero cells
    cpu_registers,    \* Chip8.cpu_registers: [u8; 16]
    index_register,   \* Chip8.index_register: u16
    program_counter,  \* Chip8.program_counter: u16
    gfx,              \* Chip8.gfx: [u8; 64 * 32], kept as the map of its nonzero cells
    delay_timer,      \* Chip8.delay_timer: u8
    sound_timer,      \* Chip8.sound_timer: u8
    stack_data,       \* Chip8.stack_data: Vec<u16>
    key_states,       \* Chip8.key_states: u16
    failure,          \* NoFailure, or the panic that ended the process
    opcode,           \* the local `opcode` of the last fetch_cycle (NoOpcode before the first)
    cycles,           \* number of fetch_cycle calls made by the driver loop
    run_pc,           \* position of chip8_sdl2_gui::run: "load" or "loop"
    call_sites,       \* history: fetch addresses of the calls not yet matched by a return
    delay_history,    \* history: the value FX15 last set, and the timer ticks since
    wait_key_state    \* chip8.wait_key_state as the driver uses it: 0xF0 when not
                      \* waiting for a key, else the register the key goes to

vars == <<memory, cpu_registers, index_register, program_counter, gfx,
          delay_timer, sound_timer, stack_data, key_states, failure,
          opcode, cycles, run_pc, call_sites, delay_history, wait_key_state>>

-----------------------------------------------------------------------------
(* Program constants *)

MEMORY_SIZE == 4096
NUM_REGISTERS == 16
GFX_SIZE == 2048
PROGRAM_START == 512
INITIAL_STACK_LEN == 16
NOT_WAITING == 240
CARTRIDGE_OFFSET == 512
CONSOLE_OFFSET == 0

(* Bounds of the model *)

MaxCycles == 4
MaxDeepCycles == 18
MaxDrawCycles == 6
MaxTicks == 3

NoFailure == "none"
NoOpcode == -1

-----------------------------------------------------------------------------
(* Fixed-width integer helpers (Rust u8 / u16 operators) *)

RECURSIVE BitAnd(_, _)
BitAnd(a, b) ==
    IF a = 0 \/ b = 0 THEN 0
    ELSE (a % 2) * (b % 2) + 2 * BitAnd(a \div 2, b \div 2)

RECURSIVE BitOr(_, _)
BitOr(a, b) ==
    IF a = 0 THEN b
    ELSE IF b = 0 THEN a
    ELSE (IF (a % 2) + (b % 2) > 0 THEN 1 ELSE 0) + 2 * BitOr(a \div 2, b \div 2)

RECURSIVE BitXor(_, _)
BitXor(a, b) ==
    IF a = 0 THEN b
    ELSE IF b = 0 THEN a
    ELSE (((a % 2) + (b % 2)) % 2) + 2 * BitXor(a \div 2, b \div 2)

RECURSIVE Pow2(_)
Pow2(n) == IF n = 0 THEN 1 ELSE 2 * Pow2(n - 1)

Shr(a, n) == a \div Pow2(n)

ShlU8(a, n) == (a * Pow2(n)) % 256

BitNot16(a) == 65535 - a

AsU8(a) == a % 256

-----------------------------------------------------------------------------
(* Arrays that start zeroed are kept as the map of their nonzero cells *)

ZeroArray == [k \in {} |-> 0]

ArrayRead(arr, i) == IF i \in DOMAIN arr THEN arr[i] ELSE 0

ArrayWrite(arr, i, v) ==
    IF v = 0
    THEN [k \in (DOMAIN arr) \ {i} |-> arr[k]]
    ELSE [k \in (DOMAIN arr) \cup {i} |-> IF k = i THEN v ELSE arr[k]]

-----------------------------------------------------------------------------
(* The machine as a record, so that handlers compose as the code does *)

Machine ==
    [memory |-> memory, cpu_registers |-> cpu_registers,
     index_register |-> index_register, program_counter |-> program_counter,
     gfx |-> gfx, delay_timer |-> delay_timer, sound_timer |-> sound_timer,
     stack_data |-> stack_data, key_states |-> key_states, failure |-> failure]

Chip8_new ==
    [memory |-> ZeroArray,
     cpu_registers |-> [r \in 0..(NUM_REGISTERS - 1) |-> 0],
     index_register |-> 0,
     program_counter |-> PROGRAM_START,
     gfx |-> ZeroArray,
     delay_timer |-> 0,
     sound_timer |-> 0,
     stack_data |-> [i \in 1..INITIAL_STACK_LEN |-> 0],
     key_states |-> 0,
     failure |-> NoFailure]

Panic(m, kind) == [m EXCEPT !.failure = kind]

\* chip8_util::validate_argument: the value passes when no bit lies outside the mask
validate_argument(value, mask) == BitAnd(value, mask) = value

\* A handler that validates its arguments first and panics when one is outside its mask
Validated(m, ok, result) == IF ok THEN result ELSE Panic(m, "ArgumentOutsideMask")

SetReg(m, r, v) == [m EXCEPT !.cpu_registers[r] = v]

-----------------------------------------------------------------------------
(* Chip8::init_memory: copy a byte sequence into memory from start_index *)

RECURSIVE init_memory_from(_, _, _, _)
init_memory_from(m, read_only_memory, start_index, k) ==
    IF k > Len(read_only_memory) THEN m
    ELSE IF start_index + k - 1 >= MEMORY_SIZE THEN Panic(m, "IndexOutOfBounds")
    ELSE init_memory_from(
             [m EXCEPT !.memory = ArrayWrite(@, start_index + k - 1, read_only_memory[k])],
             read_only_memory, start_index, k + 1)

init_memory(m, read_only_memory, start_index) ==
    init_memory_from(m, read_only_memory, start_index, 1)

(* Chip8::decrement_timers and Chip8::is_sound_active *)

\* decrement_timers as it would be with wrapping subtraction and no zero test
decrement_timers_wrapping(m) ==
    [m EXCEPT !.delay_timer = (@ + 255) % 256, !.sound_timer = (@ + 255) % 256]

decrement_timers(m) ==
    LET d == IF m.delay_timer > 0 THEN [m EXCEPT !.delay_timer = @ - 1] ELSE m
    IN  IF d.sound_timer > 0 THEN [d EXCEPT !.sound_timer = @ - 1] ELSE d

is_sound_active(m) == m.sound_timer > 0

-----------------------------------------------------------------------------
(* The instruction handlers of chip8.rs, in source order *)

\* 00E0 as it would be if only the first row of 64 cells were cleared
clear_screen_first_row(m) ==
    [m EXCEPT !.gfx = [k \in {c \in DOMAIN m.gfx : c >= 64} |-> m.gfx[k]]]

\* 00E0
clear_screen(m) == [m EXCEPT !.gfx = ZeroArray]

\* 00EE
subroutine_return(m) ==
    IF Len(m.stack_data) > 0
    THEN [m EXCEPT !.program_counter = m.stack_data[Len(m.stack_data)],
                   !.stack_data = SubSeq(m.stack_data, 1, Len(m.stack_data) - 1)]
    ELSE Panic(m, "Nothing in the stack!")

\* 1NNN
jump_to_address(m, address) ==
    Validated(m, validate_argument(address, 4095),
              [m EXCEPT !.program_counter = address])

\* 2NNN as it would be if it saved the call target instead of the return address
call_address_saving_target(m, address) ==
    LET pushed == [m EXCEPT !.stack_data = Append(@, address)]
    IN  Validated(pushed, validate_argument(address, 4095),
                  [pushed EXCEPT !.program_counter = address])

\* 2NNN
call_address(m, address) ==
    LET pushed == [m EXCEPT !.stack_data = Append(@, m.program_counter)]
    IN  Validated(pushed, validate_argument(address, 4095),
                  [pushed EXCEPT !.program_counter = address])

\* 3XKK as it would be if a skip advanced by one byte instead of one instruction
skip_next_if_byte_is_vx_by_one(m, reg_x, byte_value) ==
    Validated(m, validate_argument(reg_x, 15) /\ validate_argument(byte_value, 255),
              IF m.cpu_registers[reg_x] = byte_value
              THEN [m EXCEPT !.program_counter = @ + 1]
              ELSE m)

\* 3XKK
skip_next_if_byte_is_vx(m, reg_x, byte_value) ==
    Validated(m, validate_argument(reg_x, 15) /\ validate_argument(byte_value, 255),
              IF m.cpu_registers[reg_x] = byte_value
              THEN [m EXCEPT !.program_counter = @ + 2]
              ELSE m)

\* 4XKK
skip_next_if_byte_is_not_vx(m, reg_x, byte_value) ==
    Validated(m, validate_argument(reg_x, 15) /\ validate_argument(byte_value, 255),
              IF m.cpu_registers[reg_x] # byte_value
              THEN [m EXCEPT !.program_counter = @ + 2]
              ELSE m)

\* 5XY0
skip_next_if_vx_eql_vy(m, reg_x, reg_y) ==
    Validated(m, validate_argument(reg_x, 15) /\ validate_argument(reg_y, 15),
              IF m.cpu_registers[reg_x] = m.cpu_registers[reg_y]
              THEN [m EXCEPT !.program_counter = @ + 2]
              ELSE m)

\* 6XKK
set_register_value(m, reg_x, byte_value) ==
    Validated(m, validate_argument(reg_x, 15) /\ validate_argument(byte_value, 255),
              SetReg(m, reg_x, byte_value))

\* 7XKK
add(m, reg_x, byte_value) ==
    Validated(m, validate_argument(reg_x, 15) /\ validate_argument(byte_value, 255),
              LET sum == byte_value + m.cpu_registers[reg_x]
                  result == IF sum > 255 THEN sum - 255 ELSE sum
              IN  SetReg(m, reg_x, AsU8(result)))

\* 8XY0
load(m, reg_x, reg_y) ==
    Validated(m, validate_argument(reg_x, 15) /\ validate_argument(reg_y, 15),
              SetReg(m, reg_x, m.cpu_registers[reg_y]))

\* 8XY1
bit_or(m, reg_x, reg_y) ==
    Validated(m, validate_argument(reg_x, 15) /\ validate_argument(reg_y, 15),
              SetReg(m, reg_x, BitOr(m.cpu_registers[reg_x], m.cpu_registers[reg_y])))

\* 8XY2
bit_and(m, reg_x, reg_y) ==
    Validated(m, validate_argument(reg_x, 15) /\ validate_argument(reg_y, 15),
              SetReg(m, reg_x, BitAnd(m.cpu_registers[reg_x], m.cpu_registers[reg_y])))

\* 8XY3 as it would be if the logic operation reset the flag register
bit_xor_resetting_flag(m, reg_x, reg_y) ==
    Validated(m, validate_argument(reg_x, 15) /\ validate_argument(reg_y, 15),
              SetReg(SetReg(m, reg_x, BitXor(m.cpu_registers[reg_x], m.cpu_registers[reg_y])),
                     15, 0))

\* 8XY3
bit_xor(m, reg_x, reg_y) ==
    Validated(m, validate_argument(reg_x, 15) /\ validate_argument(reg_y, 15),
              SetReg(m, reg_x, BitXor(m.cpu_registers[reg_x], m.cpu_registers[reg_y])))

\* 8XY4 as it would be if a sum of exactly 255 counted as a carry
add_registers_carry_at_255(m, reg_x, reg_y) ==
    Validated(m, validate_argument(reg_x, 15) /\ validate_argument(reg_y, 15),
              LET reg_x_val == m.cpu_registers[reg_x]
                  reg_y_val == m.cpu_registers[reg_y]
              IN  IF reg_x_val + reg_y_val < 255
                  THEN SetReg(SetReg(m, reg_x, reg_x_val + reg_y_val), 15, 0)
                  ELSE SetReg(SetReg(m, 15, 1), reg_x, AsU8(reg_x_val + reg_y_val)))

\* 8XY4
add_registers(m, reg_x, reg_y) ==
    Validated(m, validate_argument(reg_x, 15) /\ validate_argument(reg_y, 15),
              LET reg_x_val == m.cpu_registers[reg_x]
                  reg_y_val == m.cpu_registers[reg_y]
              IN  IF reg_x_val + reg_y_val <= 255           \* checked_add is Some(x)
                  THEN SetReg(SetReg(m, reg_x, reg_x_val + reg_y_val), 15, 0)
                  ELSE SetReg(SetReg(m, 15, 1), reg_x, AsU8(reg_x_val + reg_y_val)))

\* 8XY5 as it would be if equal operands counted as a borrow
sub_registers_borrow_on_equal(m, reg_x, reg_y) ==
    Validated(m, validate_argument(reg_x, 15) /\ validate_argument(reg_y, 15),
              LET reg_x_val == m.cpu_registers[reg_x]
                  reg_y_val == m.cpu_registers[reg_y]
              IN  IF reg_x_val > reg_y_val
                  THEN SetReg(SetReg(m, 15, 1), reg_x, reg_x_val - reg_y_val)
                  ELSE SetReg(SetReg(m, 15, 0), reg_x,
                              AsU8(255 - ((reg_y_val - reg_x_val) - 1))))

\* 8XY5
sub_registers(m, reg_x, reg_y) ==
    Validated(m, validate_argument(reg_x, 15) /\ validate_argument(reg_y, 15),
              LET reg_x_val == m.cpu_registers[reg_x]
                  reg_y_val == m.cpu_registers[reg_y]
              IN  IF reg_x_val >= reg_y_val                 \* checked_sub is Some(x)
                  THEN SetReg(SetReg(m, 15, 1), reg_x, reg_x_val - reg_y_val)
                  ELSE SetReg(SetReg(m, 15, 0), reg_x,
                              255 - ((reg_y_val - reg_x_val) - 1)))

\* 8XY6
shift_right_register(m, reg_x) ==
    Validated(m, validate_argument(reg_x, 15),
              LET bit == IF BitAnd(m.cpu_registers[reg_x], 1) = 1 THEN 1 ELSE 0
              IN  SetReg(m, reg_x, Shr(bit, 1)))

\* 8XY7
sub_registers_not(m, reg_x, reg_y) ==
    Validated(m, validate_argument(reg_x, 15) /\ validate_argument(reg_y, 15),
              LET reg_x_val == m.cpu_registers[reg_x]
                  reg_y_val == m.cpu_registers[reg_y]
              IN  IF reg_y_val >= reg_x_val                 \* checked_sub is Some(y)
                  THEN SetReg(SetReg(m, 15, 1), reg_y, reg_y_val - reg_x_val)
                  ELSE SetReg(SetReg(m, 15, 0), reg_y,
                              255 - ((reg_x_val - reg_y_val) - 1)))

\* 8XYE
shift_left_register(m, reg_x) ==
    Validated(m, validate_argument(reg_x, 15),
              LET bit == IF BitAnd(m.cpu_registers[reg_x], 1) = 1 THEN 1 ELSE 0
              IN  SetReg(m, reg_x, ShlU8(bit, 1)))

\* 9XY0
skip_next_if_vx_not_eql_vy(m, reg_x, reg_y) ==
    Validated(m, validate_argument(reg_x, 15) /\ validate_argument(reg_y, 15),
              IF m.cpu_registers[reg_x] # m.cpu_registers[reg_y]
              THEN [m EXCEPT !.program_counter = @ + 2]
              ELSE m)

\* ANNN as it would be if the operand were narrowed to a byte
set_index_register_as_byte(m, value) ==
    Validated(m, validate_argument(value, 4095),
              [m EXCEPT !.index_register = AsU8(value)])

\* ANNN
set_index_register(m, value) ==
    Validated(m, validate_argument(value, 4095),
              [m EXCEPT !.index_register = value])

\* BNNN as it would be if the sum were wrapped to 12 bits
jump_to_address_plus_v0_wrapping(m, value) ==
    Validated(m, validate_argument(value, 4095),
              [m EXCEPT !.program_counter = (value + m.cpu_registers[0]) % 4096])

\* BNNN
jump_to_address_plus_v0(m, value) ==
    Validated(m, validate_argument(value, 4095),
              [m EXCEPT !.program_counter = value + m.cpu_registers[0]])

\* CXNN, random_num being the byte the generator returns
set_rand(m, reg_x, value, random_num) ==
    SetReg(m, reg_x, BitAnd(value, random_num))

\* draw_byte as it would be if a cell were XORed with the sprite bit itself
RECURSIVE draw_byte_from_xor_bit(_, _, _, _, _)
draw_byte_from_xor_bit(m, index, byte, i, pixel_was_erased) ==
    IF i >= 8 THEN [m |-> m, erased |-> pixel_was_erased]
    ELSE IF index + i >= GFX_SIZE
    THEN [m |-> Panic(m, "IndexOutOfBounds"), erased |-> pixel_was_erased]
    ELSE LET pixel == ArrayRead(m.gfx, index + i)
             mask == BitAnd(Shr(byte, 7 - i), 1)
             after == BitXor(pixel, mask)
         IN  draw_byte_from_xor_bit([m EXCEPT !.gfx = ArrayWrite(@, index + i, after)],
                                    index, byte, i + 1,
                                    pixel_was_erased \/ (pixel = 255 /\ after # 255))

\* draw_byte: XOR one sprite row onto gfx from cell y * 64 + x; the result
\* carries the machine and whether a cell went from 255 to something else
RECURSIVE draw_byte_from(_, _, _, _, _)
draw_byte_from(m, index, byte, i, pixel_was_erased) ==
    IF i >= 8 THEN [m |-> m, erased |-> pixel_was_erased]
    ELSE IF index + i >= GFX_SIZE
    THEN [m |-> Panic(m, "IndexOutOfBounds"), erased |-> pixel_was_erased]
    ELSE LET pixel == ArrayRead(m.gfx, index + i)
             mask == IF BitAnd(Shr(byte, 7 - i), 1) = 1 THEN 255 ELSE 0
             after == BitXor(pixel, mask)
         IN  draw_byte_from([m EXCEPT !.gfx = ArrayWrite(@, index + i, after)],
                            index, byte, i + 1,
                            pixel_was_erased \/ (pixel = 255 /\ after # 255))

draw_byte(m, x, y, byte) == draw_byte_from(m, y * 64 + x, byte, 0, FALSE)

\* DXYN
RECURSIVE draw_from(_, _, _, _, _, _)
draw_from(m, x, y, bytes_to_read, i, pixel_was_erased) ==
    IF i >= bytes_to_read
    THEN SetReg(m, 15, IF pixel_was_erased THEN 1 ELSE 0)
    ELSE LET y_wrapped == (y + i) % 32
             reading_address == m.index_register
         IN  IF reading_address + i >= MEMORY_SIZE
             THEN Panic(m, "IndexOutOfBounds")
             ELSE LET row == draw_byte(m, x, y_wrapped,
                                       ArrayRead(m.memory, reading_address + i))
                  IN  IF row.m.failure # NoFailure
                      THEN row.m
                      ELSE draw_from(row.m, x, y, bytes_to_read, i + 1,
                                     pixel_was_erased \/ row.erased)

draw(m, reg_x, reg_y, bytes_to_read) ==
    Validated(m, validate_argument(reg_x, 255) /\ validate_argument(reg_y, 255),
              draw_from(m, m.cpu_registers[reg_x], m.cpu_registers[reg_y],
                        bytes_to_read, 0, FALSE))

\* EX9E
skip_if_key_down(m, key) ==
    LET is_key_pressed == FALSE
    IN  IF is_key_pressed THEN [m EXCEPT !.program_counter = @ + 2] ELSE m

\* EXA1
skip_if_key_up(m, key) ==
    LET is_key_pressed == FALSE
    IN  IF ~is_key_pressed THEN [m EXCEPT !.program_counter = @ + 2] ELSE m

\* FX07
read_delay_timer(m, reg_x) ==
    Validated(m, validate_argument(reg_x, 255), SetReg(m, reg_x, m.delay_timer))

\* FX0A
wait_for_key(m, reg_x) ==
    Validated(m, validate_argument(reg_x, 255),
              Panic(m, "wait_for_key not implemented!"))

\* FX15
set_delay_timer(m, reg_x) ==
    Validated(m, validate_argument(reg_x, 255),
              [m EXCEPT !.delay_timer = m.cpu_registers[reg_x]])

\* FX18
set_sound_timer(m, reg_x) ==
    Validated(m, validate_argument(reg_x, 255),
              [m EXCEPT !.sound_timer = m.cpu_registers[reg_x]])

\* FX1E
index_reg_add(m, reg_x) ==
    Validated(m, validate_argument(reg_x, 255),
              [m EXCEPT !.index_register = m.cpu_registers[reg_x]])

\* FX29
set_index_to_character_address(m, value) ==
    Validated(m, validate_argument(value, 15),
              [m EXCEPT !.index_register = AsU8(value * 5)])

\* A write of one memory cell; an index outside the array panics
MemoryStore(m, location, v) ==
    IF m.failure # NoFailure THEN m
    ELSE IF location >= MEMORY_SIZE THEN Panic(m, "IndexOutOfBounds")
    ELSE [m EXCEPT !.memory = ArrayWrite(@, location, v)]

\* FX33 as it would be if the tens were taken from the whole value
store_bcd_tens_of_value(m, reg_x) ==
    Validated(m, validate_argument(reg_x, 255),
              LET value == m.cpu_registers[reg_x]
                  hundreds == value \div 100
                  tens == value \div 10
                  digits == value - (value \div 10) * 10
                  index == m.index_register
              IN  MemoryStore(MemoryStore(MemoryStore(m, index, hundreds),
                                          index + 1, tens),
                              index + 2, digits))

\* FX33
store_bcd(m, reg_x) ==
    Validated(m, validate_argument(reg_x, 255),
              LET value == m.cpu_registers[reg_x]
                  hundreds == value \div 100
                  tens == (value - hundreds * 100) \div 10
                  digits == (value - hundreds * 100) - tens * 10
                  index == m.index_register
              IN  MemoryStore(MemoryStore(MemoryStore(m, index, hundreds),
                                          index + 1, tens),
                              index + 2, digits))

\* FX55
RECURSIVE store_registers_from(_, _, _)
store_registers_from(m, value, i) ==
    IF i >= value + 1 \/ m.failure # NoFailure THEN m
    ELSE store_registers_from(
             MemoryStore(m, m.index_register + i, m.cpu_registers[i]), value, i + 1)

\* store_registers as it would be with the loop stopping one register short
store_registers_one_short(m, value) ==
    Validated(m, validate_argument(value, 15), store_registers_from(m, value - 1, 0))

store_registers(m, value) ==
    Validated(m, validate_argument(value, 15), store_registers_from(m, value, 0))

\* FX65
RECURSIVE read_memory_from(_, _, _)
read_memory_from(m, value, i) ==
    IF i >= value THEN m
    ELSE IF m.index_register + i >= MEMORY_SIZE THEN Panic(m, "IndexOutOfBounds")
    ELSE read_memory_from(
             SetReg(m, i, ArrayRead(m.memory, m.index_register + i)), value, i + 1)

read_memory(m, value) ==
    Validated(m, validate_argument(value, 15), read_memory_from(m, value, 0))

-----------------------------------------------------------------------------
(* Decoding: the fields execute_instruction cuts out of the opcode *)

FieldX(op) == Shr(BitAnd(op, 3840), 8)      \* (opcode & 0x0F00) >> 8
FieldY(op) == Shr(BitAnd(op, 240), 4)       \* (opcode & 0x00F0) >> 4
FieldN(op) == BitAnd(op, 15)                \* opcode & 0xF
FieldKK(op) == BitAnd(op, 255)              \* opcode & 0x0FF
FieldNNN(op) == BitAnd(op, 4095)            \* opcode & 0x0FFF

\* the error arms as they would be if an unknown word were skipped
UnknownOpcode_skipped(m) == m

\* the `_ => panic!("Unknown opcode: {}", opcode)` arms of execute_instruction
UnknownOpcode(m) == Panic(m, "Unknown opcode")

\* Chip8::execute_instruction; random_num is the byte CXNN draws if it runs
execute_instruction(m, op, random_num) ==
    LET family == BitAnd(op, 61440)
        x == FieldX(op)
        y == FieldY(op)
    IN  CASE family = 0 ->
               (CASE op = 0 -> m
                  [] op = 224 -> clear_screen(m)
                  [] op = 238 -> subroutine_return(m)
                  [] OTHER -> UnknownOpcode(m))
          [] family = 4096 -> jump_to_address(m, FieldNNN(op))
          [] family = 8192 -> call_address(m, FieldNNN(op))
          [] family = 12288 -> skip_next_if_byte_is_vx(m, x, FieldKK(op))
          [] family = 16384 -> skip_next_if_byte_is_not_vx(m, x, FieldKK(op))
          [] family = 20480 -> skip_next_if_vx_eql_vy(m, x, y)
          [] family = 24576 -> set_register_value(m, x, FieldKK(op))
          [] family = 28672 -> add(m, x, FieldKK(op))
          [] family = 32768 ->
               (LET sub == BitAnd(op, 61455)
                IN  CASE sub = 32768 -> load(m, x, y)
                      [] sub = 32769 -> bit_or(m, x, y)
                      [] sub = 32770 -> bit_and(m, x, y)
                      [] sub = 32771 -> bit_xor(m, x, y)
                      [] sub = 32772 -> add_registers(m, x, y)
                      [] sub = 32773 -> sub_registers(m, x, y)
                      [] sub = 32774 -> shift_right_register(m, x)
                      [] sub = 32775 -> sub_registers_not(m, x, y)
                      [] sub = 32782 -> shift_left_register(m, x)
                      [] OTHER -> UnknownOpcode(m))
          [] family = 36864 -> skip_next_if_vx_not_eql_vy(m, x, y)
          [] family = 40960 -> set_index_register(m, FieldNNN(op))
          [] family = 45056 -> jump_to_address_plus_v0(m, FieldNNN(op))
          [] family = 49152 -> set_rand(m, x, FieldKK(op), random_num)
          [] family = 53248 -> draw(m, x, y, FieldN(op))
          [] family = 57344 ->
               (LET sub == BitAnd(op, 61695)
                IN  CASE sub = 57502 -> skip_if_key_down(m, x)
                      [] sub = 57505 -> skip_if_key_up(m, x)
                      [] OTHER -> UnknownOpcode(m))
          [] family = 61440 ->
               (LET sub == BitAnd(op, 61695)
                IN  CASE sub = 61447 -> read_delay_timer(m, x)
                      [] sub = 61450 -> wait_for_key(m, x)
                      [] sub = 61461 -> set_delay_timer(m, x)
                      [] sub = 61464 -> set_sound_timer(m, x)
                      [] sub = 61470 -> index_reg_add(m, x)
                      [] sub = 61481 -> set_index_to_character_address(m, x)
                      [] sub = 61491 -> store_bcd(m, x)
                      [] sub = 61525 -> store_registers(m, x)
                      [] sub = 61541 -> read_memory(m, x)
                      [] OTHER -> UnknownOpcode(m))
          [] OTHER -> UnknownOpcode(m)

\* fetch_next as it would be if the word were formed low byte first
fetch_next_little_endian(m) ==
    IF m.program_counter >= MEMORY_SIZE \/ m.program_counter + 1 >= MEMORY_SIZE
    THEN [m |-> Panic(m, "IndexOutOfBounds"), opcode |-> NoOpcode]
    ELSE [m |-> [m EXCEPT !.program_counter = @ + 2],
          opcode |-> BitOr(ArrayRead(m.memory, m.program_counter + 1) * 256,
                           ArrayRead(m.memory, m.program_counter))]

\* Chip8::fetch_next: the big-endian word at the program counter, which then
\* advances by 2; either byte read panics outside the array
fetch_next(m) ==
    IF m.program_counter >= MEMORY_SIZE \/ m.program_counter + 1 >= MEMORY_SIZE
    THEN [m |-> Panic(m, "IndexOutOfBounds"), opcode |-> NoOpcode]
    ELSE [m |-> [m EXCEPT !.program_counter = @ + 2],
          opcode |-> BitOr(ArrayRead(m.memory, m.program_counter) * 256,
                           ArrayRead(m.memory, m.program_counter + 1))]

\* fetch_cycle as it would be if every execution cycle also ticked the timers
fetch_cycle_ticking(m, random_num) ==
    LET fetched == fetch_next(m)
    IN  IF fetched.m.failure # NoFailure
        THEN fetched
        ELSE [m |-> decrement_timers(execute_instruction(fetched.m, fetched.opcode, random_num)),
              opcode |-> fetched.opcode]

\* Chip8::fetch_cycle
fetch_cycle(m, random_num) ==
    LET fetched == fetch_next(m)
    IN  IF fetched.m.failure # NoFailure
        THEN fetched
        ELSE [m |-> execute_instruction(fetched.m, fetched.opcode, random_num),
              opcode |-> fetched.opcode]

-----------------------------------------------------------------------------
(* Program images the driver may load: short programs over the instruction  *)
(* set, grouped by the instructions they exercise                           *)

RegIdx == {0, 1, 15}
Bytes == {0, 1, 3, 4, 255}
TimerBytes == {0, 1, 2}
RandomBytes == {0, 255}
Keys == {0, 15}
MaxFlowLen == 4

Op(a, b, c, d) == a * 4096 + b * 256 + c * 16 + d
OpXKK(a, x, kk) == a * 4096 + x * 256 + kk

\* The bytes of a program: each instruction word high byte first
RomBytes(ops) ==
    [i \in 1..(2 * Len(ops)) |->
        IF i % 2 = 1 THEN ops[(i + 1) \div 2] \div 256 ELSE ops[i \div 2] % 256]

RegisterOps(x, y) ==
    {Op(8, x, y, n) : n \in {0, 1, 2, 3, 4, 5, 6, 7, 14}}
        \cup {Op(5, x, y, 0), Op(9, x, y, 0)}

ImmediateOps(x) == {OpXKK(a, x, kk) : a \in {3, 4, 7}, kk \in Bytes}

\* set two registers, then one instruction on them
ArithRoms ==
    UNION {{<<OpXKK(6, x, a), OpXKK(6, y, b), op>> :
                a \in Bytes, b \in Bytes, op \in RegisterOps(x, y) \cup ImmediateOps(x)} :
            x \in RegIdx, y \in RegIdx}

\* set a register, then add two immediates to it
AddRoms ==
    {<<OpXKK(6, x, a), OpXKK(7, x, v), OpXKK(7, x, w)>> :
        x \in RegIdx, a \in Bytes, v \in Bytes, w \in Bytes}

\* calls, returns and no-ops in any order
FlowOps == {238, 0, Op(2, 2, 0, 0), Op(2, 2, 0, 4), Op(2, 2, 0, 6)}
FlowRoms == UNION {[1..n -> FlowOps] : n \in 1..MaxFlowLen}

\* wait for a key, possibly after setting a register
WaitRoms ==
    {<<Op(15, x, 0, 10)>> : x \in RegIdx}
        \cup {<<OpXKK(6, x, a), Op(15, y, 0, 10)>> : x \in RegIdx, y \in RegIdx, a \in Bytes}

\* set the delay timer from a register, run one other instruction, and read
\* the delay timer back
TimerMidOps(x) == {Op(15, x, 1, 8), OpXKK(7, x, 1), OpXKK(6, x, 0), 0, 224}
TimerRoms ==
    UNION {{<<OpXKK(6, x, a), Op(15, x, 1, 5), mid, Op(15, y, 0, 7)>> :
                y \in RegIdx, a \in TimerBytes, mid \in TimerMidOps(x)} :
            x \in RegIdx}

\* calls and returns nested deep: the same, but shorter programs run longer
MaxDeepLen == 2
DeepRoms == UNION {[1..n -> FlowOps] : n \in 1..MaxDeepLen}

\* draw the program's own first bytes as a sprite of n rows at (a, b), then
\* once more, either at the same place or after moving to column a2
DrawColumns == {0, 56, 57, 255}
DrawRows == {0, 31}
DrawHeights == {0, 1, 2}
DrawRoms ==
    {<<OpXKK(6, 0, a), OpXKK(6, 1, b), Op(10, 2, 0, 0), Op(13, 0, 1, n), Op(13, 0, 1, n)>> :
        a \in DrawColumns, b \in DrawRows, n \in DrawHeights}
    \cup
    {<<OpXKK(6, 0, a), OpXKK(6, 1, b), Op(10, 2, 0, 0), Op(13, 0, 1, n),
       OpXKK(6, 0, a2), Op(13, 0, 1, n)>> :
        a \in DrawColumns, a2 \in DrawColumns, b \in DrawRows, n \in DrawHeights}

\* draw once or twice, then clear the screen
ClearRoms ==
    {<<OpXKK(6, 0, a), OpXKK(6, 1, b), Op(10, 2, 0, 0), Op(13, 0, 1, n), 224>> :
        a \in DrawColumns, b \in DrawRows, n \in DrawHeights}
    \cup
    {<<OpXKK(6, 0, a), OpXKK(6, 1, b), Op(10, 2, 0, 0), Op(13, 0, 1, n),
       Op(13, 1, 0, n), 224>> :
        a \in DrawColumns, b \in DrawRows, n \in DrawHeights}

\* set a register, point the index register somewhere, then one instruction
\* that works through the index register
IndexAddrs == {512, 768, 4093, 4095}
IndexOps(z) ==
    {Op(15, z, 1, 14), Op(15, z, 2, 9), Op(15, z, 3, 3), Op(15, z, 5, 5),
     Op(15, z, 6, 5), Op(13, z, z, 2)}
IndexRoms ==
    UNION {{<<OpXKK(6, x, a), 40960 + nnn, op>> :
                a \in Bytes, nnn \in IndexAddrs, op \in IndexOps(z)} :
            x \in RegIdx, z \in RegIdx}

\* every byte value in V0, stored as decimal digits
BcdRoms == {<<OpXKK(6, 0, v), Op(10, 3, 0, 0), Op(15, 0, 3, 3)>> : v \in 0..255}

\* set a register, then point the index register at an operand
IndexOperands == {0, 1, 2, 4, 8, 16, 32, 64, 128, 256, 291, 512, 1024, 2048, 2748, 4095}
IndexSetRoms ==
    {<<OpXKK(6, x, a), 40960 + nnn>> : x \in {1, 15}, a \in {1, 255}, nnn \in IndexOperands}

\* jumps towards the end of memory
JumpAddrs == {512, 4092, 4094, 4095}
JumpRoms ==
    {<<4096 + nnn>> : nnn \in JumpAddrs}
        \cup {<<OpXKK(6, 0, a), 45056 + nnn>> : a \in Bytes, nnn \in JumpAddrs}

\* set a register, then an instruction word that execute_instruction has no arm for
WordsWithoutHandler ==
    {104, 225, 239, 1, 4095}
        \cup {Op(8, x, 1, n) : x \in RegIdx, n \in {8, 9, 10, 11, 12, 13, 15}}
        \cup {OpXKK(14, x, kk) : x \in RegIdx, kk \in {0, 159, 160, 162}}
        \cup {OpXKK(15, x, kk) : x \in RegIdx, kk \in {0, 8, 31, 102, 255}}
UnknownRoms ==
    {<<OpXKK(6, 1, a), word>> : a \in {1, 255}, word \in WordsWithoutHandler}

Roms ==
    ArithRoms \cup AddRoms \cup FlowRoms
        \cup IndexRoms \cup JumpRoms \cup UnknownRoms \cup BcdRoms
        \cup IndexSetRoms

\* name a key in a register, then skip on that key being down or up
KeySkipRoms ==
    {<<OpXKK(6, x, k), OpXKK(14, x, kk)>> : x \in RegIdx, k \in Keys, kk \in {158, 161}}

KeypadRoms == WaitRoms \cup KeySkipRoms

ConsoleRoms == {<< >>}

-----------------------------------------------------------------------------
(* State after construction, and the actions *)

SetMachine(m) ==
    /\ memory' = m.memory
    /\ cpu_registers' = m.cpu_registers
    /\ index_register' = m.index_register
    /\ program_counter' = m.program_counter
    /\ gfx' = m.gfx
    /\ delay_timer' = m.delay_timer
    /\ sound_timer' = m.sound_timer
    /\ stack_data' = m.stack_data
    /\ key_states' = m.key_states
    /\ failure' = m.failure

Init ==
    /\ memory = Chip8_new.memory
    /\ cpu_registers = Chip8_new.cpu_registers
    /\ index_register = Chip8_new.index_register
    /\ program_counter = Chip8_new.program_counter
    /\ gfx = Chip8_new.gfx
    /\ delay_timer = Chip8_new.delay_timer
    /\ sound_timer = Chip8_new.sound_timer
    /\ stack_data = Chip8_new.stack_data
    /\ key_states = Chip8_new.key_states
    /\ failure = Chip8_new.failure
    /\ opcode = NoOpcode
    /\ cycles = 0
    /\ run_pc = "load"
    /\ call_sites = << >>
    /\ delay_history = [set |-> Chip8_new.delay_timer, ticks |-> 0]
    /\ wait_key_state = NOT_WAITING

\* chip8_sdl2_gui::run before its loop: load the console image at 0 and the
\* cartridge at 0x200, then clear the keypad
RunLoadFrom(roms) ==
    /\ run_pc = "load"
    /\ \E console_rom \in ConsoleRoms, cartridge_rom \in roms :
         LET loaded == init_memory(init_memory(Machine, RomBytes(console_rom), CONSOLE_OFFSET),
                                   RomBytes(cartridge_rom), CARTRIDGE_OFFSET)
         IN  SetMachine([loaded EXCEPT !.key_states = 0])
    /\ run_pc' = "loop"
    /\ UNCHANGED <<opcode, cycles, call_sites, delay_history, wait_key_state>>

RunLoad == RunLoadFrom(Roms)

RunLoadKeypad == RunLoadFrom(KeypadRoms)

RunLoadDeep == RunLoadFrom(DeepRoms)

RunLoadDraw == RunLoadFrom(DrawRoms \cup ClearRoms)

RunLoadTimer == RunLoadFrom(TimerRoms)

Running == run_pc = "loop" /\ failure = NoFailure

\* `let is_ticking: bool = chip8.wait_key_state & 0xF0 == 0xF0`
is_ticking == BitAnd(wait_key_state, 240) = 240

IsCall(op) == op # NoOpcode /\ BitAnd(op, 61440) = 8192
IsReturn(op) == op = 238
IsSetRand(op) == op # NoOpcode /\ BitAnd(op, 61440) = 49152
IsSetDelayTimer(op) == op # NoOpcode /\ BitAnd(op, 61695) = 61461

\* the calls still open after a cycle that fetched op at address site with
\* depth entries on the stack
CallSitesAfter(sites, site, depth, op, ok) ==
    IF ~ok THEN sites
    ELSE IF IsCall(op) THEN Append(sites, [site |-> site, depth |-> depth])
    ELSE IF IsReturn(op) /\ Len(sites) > 0 THEN SubSeq(sites, 1, Len(sites) - 1)
    ELSE sites

\* One iteration of the driver loop that runs an execution cycle, the driver
\* making at most limit of them
FetchCycleWithin(limit) ==
    /\ Running
    /\ is_ticking
    /\ cycles < limit
    /\ \E random_num \in (IF IsSetRand(fetch_next(Machine).opcode) THEN RandomBytes ELSE {0}) :
         LET done == fetch_cycle(Machine, random_num)
         IN  /\ SetMachine(done.m)
             /\ opcode' = done.opcode
             /\ call_sites' = CallSitesAfter(call_sites, program_counter,
                                             Len(stack_data), done.opcode,
                                             done.m.failure = NoFailure)
             /\ delay_history' =
                    IF IsSetDelayTimer(done.opcode) /\ done.m.failure = NoFailure
                    THEN [set |-> cpu_registers[FieldX(done.opcode)], ticks |-> 0]
                    ELSE delay_history
    /\ cycles' = cycles + 1
    /\ UNCHANGED <<run_pc, wait_key_state>>

FetchCycle == FetchCycleWithin(MaxCycles)

FetchCycleDeep == FetchCycleWithin(MaxDeepCycles)

FetchCycleDraw == FetchCycleWithin(MaxDrawCycles)

\* One iteration of the driver loop that ticks the timers, the driver making
\* at most MaxTicks of them between two settings of the delay timer
DecrementTimers ==
    /\ Running
    /\ is_ticking
    /\ delay_history.ticks < MaxTicks
    /\ SetMachine(decrement_timers(Machine))
    /\ delay_history' = [delay_history EXCEPT !.ticks = @ + 1]
    /\ UNCHANGED <<opcode, cycles, run_pc, call_sites, wait_key_state>>

\* The keypad bit of key k: Num0 is 0x8000, ..., F is 0x0001
KeyMask(k) == Shr(32768, k)

\* Event::KeyDown of key k
KeyDown(k) ==
    /\ Running
    /\ SetMachine([Machine EXCEPT !.key_states = BitOr(@, KeyMask(k))])
    /\ UNCHANGED <<opcode, cycles, run_pc, call_sites, delay_history, wait_key_state>>

\* Event::KeyUp of key k
KeyUp(k) ==
    /\ Running
    /\ SetMachine([Machine EXCEPT !.key_states = BitAnd(@, BitNot16(KeyMask(k)))])
    /\ UNCHANGED <<opcode, cycles, run_pc, call_sites, delay_history, wait_key_state>>

\* An execution cycle on an instruction other than FX0A
FetchCycleNoWait ==
    /\ fetch_next(Machine).opcode # NoOpcode
    /\ BitAnd(fetch_next(Machine).opcode, 61695) # 61450
    /\ FetchCycle

\* An execution cycle on FX0A that, instead of panicking, puts the machine
\* into the awaiting-key state and records the destination register
EnterKeyWait ==
    /\ Running
    /\ is_ticking
    /\ cycles < MaxCycles
    /\ LET fetched == fetch_next(Machine)
       IN  /\ fetched.opcode # NoOpcode
           /\ BitAnd(fetched.opcode, 61695) = 61450
           /\ SetMachine(fetched.m)
           /\ opcode' = fetched.opcode
           /\ wait_key_state' = FieldX(fetched.opcode)
    /\ cycles' = cycles + 1
    /\ UNCHANGED <<run_pc, call_sites, delay_history>>

\* The key scan of the driver loop: `for i in 0..16`, every pressed key i is
\* stored in cpu_registers[wait_key_state] and wait_key_state set to 0xF0;
\* the loop goes on after the first key, and an index of 0xF0 panics
RECURSIVE resolve_key_wait_from(_, _, _)
resolve_key_wait_from(m, wait, i) ==
    IF i >= 16 \/ m.failure # NoFailure THEN [m |-> m, wait_key_state |-> wait]
    ELSE IF BitAnd(Shr(m.key_states, 15 - i), 1) = 1
         THEN IF wait >= NUM_REGISTERS
              THEN [m |-> Panic(m, "IndexOutOfBounds"), wait_key_state |-> wait]
              ELSE resolve_key_wait_from(SetReg(m, wait, i), NOT_WAITING, i + 1)
         ELSE resolve_key_wait_from(m, wait, i + 1)

\* One iteration of the driver loop while the machine waits for a key
ResolveKeyWait ==
    /\ Running
    /\ ~is_ticking
    /\ LET scanned == resolve_key_wait_from(Machine, wait_key_state, 0)
       IN  /\ SetMachine(scanned.m)
           /\ wait_key_state' = scanned.wait_key_state
    /\ UNCHANGED <<opcode, cycles, run_pc, call_sites, delay_history>>

\* The interpreter running a loaded program
Next ==
    \/ RunLoad
    \/ FetchCycle

Spec == Init /\ [][Next]_vars

\* The interpreter running a program that uses the timers, the timers ticking
\* at any rate between the execution cycles
TimerNext ==
    \/ RunLoadTimer
    \/ FetchCycle
    \/ DecrementTimers

TimerSpec == Init /\ [][TimerNext]_vars

\* The interpreter running a program that uses the keypad, keys going down and up
KeypadNext ==
    \/ RunLoadKeypad
    \/ FetchCycle
    \/ \E k \in Keys : KeyDown(k)
    \/ \E k \in Keys : KeyUp(k)

KeypadSpec == Init /\ [][KeypadNext]_vars

\* The same with a wait-for-key instruction that waits, and the driver's key scan
KeyWaitNext ==
    \/ RunLoadKeypad
    \/ FetchCycleNoWait
    \/ EnterKeyWait
    \/ \E k \in Keys : KeyDown(k)
    \/ \E k \in Keys : KeyUp(k)
    \/ ResolveKeyWait

KeyWaitSpec == Init /\ [][KeyWaitNext]_vars

\* The interpreter running a program of calls and returns for many cycles
DeepNext ==
    \/ RunLoadDeep
    \/ FetchCycleDeep

DeepSpec == Init /\ [][DeepNext]_vars

\* The interpreter running a program that draws
DrawNext ==
    \/ RunLoadDraw
    \/ FetchCycleDraw

DrawSpec == Init /\ [][DrawNext]_vars

-----------------------------------------------------------------------------
(* Vocabulary of the properties *)

\* a step that ran one execution cycle; program_counter is then the address
\* fetched from and opcode' the instruction word fetched
FetchStep == cycles' = cycles + 1

Family(op) == op \div 4096
NibbleX(op) == (op \div 256) % 16
NibbleY(op) == (op \div 16) % 16
NibbleN(op) == op % 16
LowByte(op) == op % 256

IsWaitForKey(op) == op # NoOpcode /\ Family(op) = 15 /\ LowByte(op) = 10
IsRegisterOp(op, n) == op # NoOpcode /\ Family(op) = 8 /\ NibbleN(op) = n

\* the instruction word the loaded program holds at its k-th place
ProgramWord(k) ==
    ArrayRead(memory, PROGRAM_START + 2 * k) * 256
        + ArrayRead(memory, PROGRAM_START + 2 * k + 1)

OnlyProgramCounterChanges ==
    UNCHANGED <<memory, cpu_registers, index_register, gfx, delay_timer,
                sound_timer, stack_data, key_states>>

-----------------------------------------------------------------------------
(* C1: executing the wait-for-key instruction FX0A never fails.  The code   *)
(* panics in wait_for_key, so this invariant is violated.                   *)
C1_WaitForKeyNeverFails == IsWaitForKey(opcode) => failure = NoFailure

(* C2: once FX0A has been fetched the machine waits, and a pressed key      *)
(* resolves the wait and lets the driver go on running cycles; so a machine *)
(* that fetched FX0A and has a key pressed is still running.  The code has  *)
(* panicked by then.                                                        *)
C2_KeyPressedAfterWaitKeepsRunning ==
    (IsWaitForKey(opcode) /\ key_states # 0) => Running

(* C3: a return executed while no call is pending fails; it does not set    *)
(* the program counter.  The code pops one of the 16 zeros the stack is     *)
(* built with and continues at address 0.                                   *)
C3_ReturnWithoutCallFails ==
    [][(FetchStep /\ IsReturn(opcode') /\ call_sites = << >>)
           => failure' # NoFailure]_vars

(* C4: no more than 16 return addresses are ever pending; the call that     *)
(* would make a 17th pending fails.  The code pushes without a bound.       *)
C4_PendingCallsBounded == Len(call_sites) <= 16

(* C5: call and return are LIFO: a call fetched at p continues at NNN, and  *)
(* the return matching it continues at p + 2 with the stack as deep as it   *)
(* was before that call.                                                    *)
C5_CallReturnLIFO ==
    [][FetchStep =>
         /\ IsCall(opcode') =>
              /\ failure' = NoFailure
              /\ program_counter' = opcode' % 4096
              /\ Len(stack_data') = Len(stack_data) + 1
         /\ (IsReturn(opcode') /\ call_sites # << >>) =>
              /\ failure' = NoFailure
              /\ program_counter' = call_sites[Len(call_sites)].site + 2
              /\ Len(stack_data') = call_sites[Len(call_sites)].depth]_vars

\* two nested calls were made and both returned: back after the first call
C5_Witness ==
    /\ failure = NoFailure
    /\ cycles = 4
    /\ ProgramWord(0) = Op(2, 2, 0, 4) /\ ProgramWord(2) = Op(2, 2, 0, 6)
    /\ opcode = 238
    /\ call_sites = << >>
    /\ program_counter = PROGRAM_START + 2
    /\ Len(stack_data) = INITIAL_STACK_LEN

(* C6: a conditional skip (3XKK, 4XKK, 5XY0, 9XY0) advances the program     *)
(* counter by 4 from the fetch address when its condition holds and by 2    *)
(* when not, and changes nothing else.                                      *)
SkipCondition(op, regs) ==
    CASE Family(op) = 3 -> regs[NibbleX(op)] = LowByte(op)
      [] Family(op) = 4 -> regs[NibbleX(op)] # LowByte(op)
      [] Family(op) = 5 -> regs[NibbleX(op)] = regs[NibbleY(op)]
      [] Family(op) = 9 -> regs[NibbleX(op)] # regs[NibbleY(op)]

C6_ConditionalSkip ==
    [][(FetchStep /\ opcode' # NoOpcode /\ Family(opcode') \in {3, 4, 5, 9}) =>
         /\ failure' = NoFailure
         /\ program_counter' =
                program_counter + (IF SkipCondition(opcode', cpu_registers) THEN 4 ELSE 2)
         /\ OnlyProgramCounterChanges]_vars

\* a skip-if-equal whose register held the immediate has skipped
C6_Witness ==
    /\ failure = NoFailure
    /\ cycles = 3
    /\ opcode # NoOpcode /\ Family(opcode) = 3
    /\ cpu_registers[NibbleX(opcode)] = LowByte(opcode)
    /\ program_counter = PROGRAM_START + 8

(* C7: add-immediate wraps modulo 256: after set r to a, add v to r, add w  *)
(* to r, register r holds (a + v + w) mod 256, and VF is untouched when r   *)
(* is not 15.  The code subtracts 255 instead of 256 on overflow.           *)
C7_AddImmediateTwiceWraps ==
    LET set == ProgramWord(0)
        add1 == ProgramWord(1)
        add2 == ProgramWord(2)
        r == NibbleX(set)
    IN  (/\ cycles = 3
         /\ Family(set) = 6 /\ Family(add1) = 7 /\ Family(add2) = 7
         /\ NibbleX(add1) = r /\ NibbleX(add2) = r)
        => /\ failure = NoFailure
           /\ cpu_registers[r] = (LowByte(set) + LowByte(add1) + LowByte(add2)) % 256
           /\ (r # 15 => cpu_registers[15] = 0)

(* C8: add-registers 8XY4 with x in 0..14: VX = (a + b) mod 256, VF = 1 if  *)
(* a + b > 255 else 0, VY unchanged when y is neither x nor 15.             *)
C8_AddRegisters ==
    [][(FetchStep /\ IsRegisterOp(opcode', 4) /\ NibbleX(opcode') # 15) =>
         LET x == NibbleX(opcode')
             y == NibbleY(opcode')
             a == cpu_registers[x]
             b == cpu_registers[y]
         IN  /\ failure' = NoFailure
             /\ cpu_registers'[x] = (a + b) % 256
             /\ cpu_registers'[15] = (IF a + b > 255 THEN 1 ELSE 0)
             /\ (y \notin {x, 15} => cpu_registers'[y] = b)]_vars

\* 0xFF + 0x01 was added: destination 0, carry set
C8_Witness ==
    /\ failure = NoFailure
    /\ cycles = 3
    /\ IsRegisterOp(opcode, 4)
    /\ ProgramWord(0) = OpXKK(6, 0, 255) /\ ProgramWord(1) = OpXKK(6, 1, 1)
    /\ NibbleX(opcode) = 0 /\ NibbleY(opcode) = 1
    /\ cpu_registers[0] = 0 /\ cpu_registers[1] = 1 /\ cpu_registers[15] = 1

(* C9: subtract-registers 8XY5 with x in 0..14: VX = (a - b) mod 256, VF =  *)
(* 1 if a >= b else 0, VY unchanged when y is neither x nor 15.             *)
C9_SubRegisters ==
    [][(FetchStep /\ IsRegisterOp(opcode', 5) /\ NibbleX(opcode') # 15) =>
         LET x == NibbleX(opcode')
             y == NibbleY(opcode')
             a == cpu_registers[x]
             b == cpu_registers[y]
         IN  /\ failure' = NoFailure
             /\ cpu_registers'[x] = (a + 256 - b) % 256
             /\ cpu_registers'[15] = (IF a >= b THEN 1 ELSE 0)
             /\ (y \notin {x, 15} => cpu_registers'[y] = b)]_vars

\* 3 - 4 was computed: destination 255, borrow (VF = 0)
C9_Witness ==
    /\ failure = NoFailure
    /\ cycles = 3
    /\ IsRegisterOp(opcode, 5)
    /\ ProgramWord(0) = OpXKK(6, 0, 3) /\ ProgramWord(1) = OpXKK(6, 1, 4)
    /\ NibbleX(opcode) = 0 /\ NibbleY(opcode) = 1
    /\ cpu_registers[0] = 255 /\ cpu_registers[1] = 4 /\ cpu_registers[15] = 0

(* C10: subtract-registers-reversed 8XY7 with x, y in 0..14 and x # y: VX = *)
(* (b - a) mod 256, VY still b, VF = 1 if b >= a else 0.  The code stores   *)
(* the difference in VY and leaves VX alone.                                *)
C10_SubRegistersReversed ==
    [][(/\ FetchStep /\ IsRegisterOp(opcode', 7)
        /\ NibbleX(opcode') # 15 /\ NibbleY(opcode') # 15
        /\ NibbleX(opcode') # NibbleY(opcode')) =>
         LET x == NibbleX(opcode')
             y == NibbleY(opcode')
             a == cpu_registers[x]
             b == cpu_registers[y]
         IN  /\ failure' = NoFailure
             /\ cpu_registers'[x] = (b + 256 - a) % 256
             /\ cpu_registers'[y] = b
             /\ cpu_registers'[15] = (IF b >= a THEN 1 ELSE 0)]_vars

(* C11: the in-place shifts keep the operand while taking the flag out of   *)
(* it: for x in 0..14 and v = VX, 8XY6 leaves VX = v div 2 and VF = v mod   *)
(* 2, and 8XYE leaves VX = (2 * v) mod 256 and VF = v div 128.  The code    *)
(* overwrites VX with its lowest bit before shifting and never writes VF.   *)
C11_ShiftsKeepOperand ==
    [][(/\ FetchStep
        /\ (IsRegisterOp(opcode', 6) \/ IsRegisterOp(opcode', 14))
        /\ NibbleX(opcode') # 15) =>
         LET x == NibbleX(opcode')
             v == cpu_registers[x]
         IN  /\ failure' = NoFailure
             /\ IsRegisterOp(opcode', 6) =>
                  (cpu_registers'[x] = v \div 2 /\ cpu_registers'[15] = v % 2)
             /\ IsRegisterOp(opcode', 14) =>
                  (cpu_registers'[x] = (2 * v) % 256 /\ cpu_registers'[15] = v \div 128)]_vars

(* C12: draw composes by XOR with wraparound and never fails on             *)
(* coordinates: with the n sprite bytes inside memory the draw completes,   *)
(* and the cell at row (VY + i) mod 32, column (VX + b) mod 64 is XORed     *)
(* with bit 7 - b of memory[I + i]; every other cell is unchanged.  The     *)
(* code does not wrap columns (the row spills into the next one) and        *)
(* panics when the row runs past the last cell of the display.              *)
Lit(cells, cell) == ArrayRead(cells, cell) = 255

\* whether the sprite of n rows at address i drawn at (vx, vy) has a set bit on the cell
SpriteBitOn(mem, i, n, vx, vy, cell) ==
    \E row \in 0..(n - 1), b \in 0..7 :
        /\ (vy + row) % 32 = cell \div 64
        /\ (vx + b) % 64 = cell % 64
        /\ (ArrayRead(mem, i + row) \div Pow2(7 - b)) % 2 = 1

IsDraw(op) == op # NoOpcode /\ Family(op) = 13

C12_DrawXorWraps ==
    [][(/\ FetchStep /\ IsDraw(opcode')
        /\ index_register + NibbleN(opcode') <= MEMORY_SIZE) =>
         LET vx == cpu_registers[NibbleX(opcode')]
             vy == cpu_registers[NibbleY(opcode')]
         IN  /\ failure' = NoFailure
             /\ \A cell \in 0..(GFX_SIZE - 1) :
                  Lit(gfx', cell) =
                      (Lit(gfx, cell) #
                       SpriteBitOn(memory, index_register, NibbleN(opcode'), vx, vy, cell))]_vars

(* C13: draw sets VF to 1 exactly when some cell was lit before the draw    *)
(* and is unlit after it, and to 0 otherwise.  A draw that panics on its    *)
(* coordinates (C12) has erased cells without ever writing VF.              *)
C13_DrawCollisionFlag ==
    [][(FetchStep /\ IsDraw(opcode')) =>
         cpu_registers'[15] =
             (IF \E cell \in 0..(GFX_SIZE - 1) : Lit(gfx, cell) /\ ~Lit(gfx', cell)
              THEN 1 ELSE 0)]_vars

(* C14: every memory address an execution step uses -- the two fetch bytes  *)
(* at PC and PC + 1, the sprite bytes of a draw, the three BCD bytes, the   *)
(* bytes of a block store or load -- lies in 0..4095, or the step fails;    *)
(* no access is wrapped or truncated into the address space.                *)
IsIndexOp(op, kk) == op # NoOpcode /\ Family(op) = 15 /\ LowByte(op) = kk

\* the addresses of a cycle: the two bytes of the fetch, one sprite byte per
\* row of a draw, the three bytes of store_bcd, and the bytes at I..I+X of
\* store_registers and read_memory
AddressesUsed(pc, i, op) ==
    {pc, pc + 1} \cup
    (CASE IsDraw(op) -> {i + k : k \in 0..(NibbleN(op) - 1)}
       [] IsIndexOp(op, 51) -> {i, i + 1, i + 2}
       [] IsIndexOp(op, 85) -> {i + k : k \in 0..NibbleX(op)}
       [] IsIndexOp(op, 101) -> {i + k : k \in 0..NibbleX(op)}
       [] OTHER -> {})

C14_MemoryAddressesInRange ==
    [][FetchStep =>
         /\ failure' = NoFailure =>
              AddressesUsed(program_counter, index_register, opcode') \subseteq 0..(MEMORY_SIZE - 1)
         /\ ~({program_counter, program_counter + 1} \subseteq 0..(MEMORY_SIZE - 1)) =>
              (failure' = "IndexOutOfBounds" /\ memory' = memory /\ cpu_registers' = cpu_registers)
         /\ DOMAIN memory' \subseteq 0..(MEMORY_SIZE - 1)]_vars

(* C15: an execution step on an instruction word that matches no handler    *)
(* fails with an unknown-instruction error; the word is neither skipped nor *)
(* executed as another instruction, and the failing step changes no         *)
(* register, memory cell, stack entry, display cell or timer.               *)
\* the words listed as having no handler: 0NNN other than 00E0 and 00EE, 8XYN
\* with N in {8,9,A,B,C,D,F}, EXNN other than EX9E and EXA1, FXNN outside
\* {07,0A,15,18,1E,29,33,55,65}
ListedWithoutHandler(op) ==
    \/ Family(op) = 0 /\ op \notin {224, 238}
    \/ Family(op) = 8 /\ NibbleN(op) \in {8, 9, 10, 11, 12, 13, 15}
    \/ Family(op) = 14 /\ LowByte(op) \notin {158, 161}
    \/ Family(op) = 15 /\ LowByte(op) \notin {7, 10, 21, 24, 30, 41, 51, 85, 101}

\* the same list without the word 0000
HasNoHandler(op) == ListedWithoutHandler(op) /\ op # 0

FailsAsUnknown ==
    /\ failure' = "Unknown opcode"
    /\ cpu_registers' = cpu_registers
    /\ index_register' = index_register
    /\ memory' = memory
    /\ stack_data' = stack_data
    /\ gfx' = gfx
    /\ delay_timer' = delay_timer
    /\ sound_timer' = sound_timer

\* as listed, the word 0000 included
C15_ListedWordsFail ==
    [][(FetchStep /\ opcode' # NoOpcode /\ ListedWithoutHandler(opcode')) => FailsAsUnknown]_vars

\* every listed word other than 0000 fails so, and only a word without a
\* handler fails with the unknown-instruction error
C15_UnknownWordsFail ==
    [][(FetchStep /\ opcode' # NoOpcode) =>
         /\ HasNoHandler(opcode') => FailsAsUnknown
         /\ failure' = "Unknown opcode" => HasNoHandler(opcode')
         /\ opcode' = 0 =>
              (failure' = NoFailure /\ OnlyProgramCounterChanges
                   /\ program_counter' = program_counter + 2)]_vars

\* the word 8118 was fetched with V1 = 255 and the run has failed on it
C15_Witness ==
    /\ failure = "Unknown opcode"
    /\ opcode = Op(8, 1, 1, 8)
    /\ cpu_registers[1] = 255

(* C16: the keypad skips consult the keypad bitmask: with VX in 0..15, EX9E *)
(* advances the program counter by an additional 2 exactly when the bit of  *)
(* key VX is set, EXA1 exactly when it is clear, and neither changes the    *)
(* bitmask.  The code decides both on a constant.                           *)
IsKeySkip(op) == op # NoOpcode /\ Family(op) = 14 /\ LowByte(op) \in {158, 161}

C16_KeySkipsConsultKeypad ==
    [][(FetchStep /\ IsKeySkip(opcode') /\ cpu_registers[NibbleX(opcode')] \in 0..15) =>
         LET pressed == BitAnd(key_states, KeyMask(cpu_registers[NibbleX(opcode')])) # 0
             skips == IF LowByte(opcode') = 158 THEN pressed ELSE ~pressed
         IN  /\ failure' = NoFailure
             /\ program_counter' = program_counter + (IF skips THEN 4 ELSE 2)
             /\ key_states' = key_states]_vars

(* C17: FX1E adds VX to the index register: from index value i and VX = v   *)
(* the index register afterwards holds i + v, as long as that stays within  *)
(* 4095.  The code stores v alone.                                          *)
C17_IndexRegAddAdds ==
    [][(FetchStep /\ IsIndexOp(opcode', 30)
            /\ index_register + cpu_registers[NibbleX(opcode')] <= MEMORY_SIZE - 1) =>
         /\ failure' = NoFailure
         /\ index_register' = index_register + cpu_registers[NibbleX(opcode')]]_vars

(* C18: FX65 with nibble N and I + N <= 4095 reads N + 1 registers:         *)
(* afterwards Vi = memory[I + i] for every i in 0..N inclusive and the      *)
(* registers above N are unchanged.  The code stops one register short.     *)
C18_BlockLoadReadsThroughVN ==
    [][(FetchStep /\ IsIndexOp(opcode', 101)
            /\ index_register + NibbleX(opcode') <= MEMORY_SIZE - 1) =>
         /\ failure' = NoFailure
         /\ \A i \in 0..(NUM_REGISTERS - 1) :
              cpu_registers'[i] =
                  IF i <= NibbleX(opcode')
                  THEN ArrayRead(memory, index_register + i)
                  ELSE cpu_registers[i]]_vars

(* C19: FX55 with nibble N and I + N <= 4095 writes N + 1 bytes: afterwards *)
(* memory[I + i] = Vi for every i in 0..N inclusive, every other memory     *)
(* cell is unchanged, and no register, the index register included, is      *)
(* changed.                                                                 *)
C19_BlockStoreWritesThroughVN ==
    [][(FetchStep /\ IsIndexOp(opcode', 85)
            /\ index_register + NibbleX(opcode') <= MEMORY_SIZE - 1) =>
         /\ failure' = NoFailure
         /\ \A a \in 0..(MEMORY_SIZE - 1) :
              ArrayRead(memory', a) =
                  IF a \in index_register..(index_register + NibbleX(opcode'))
                  THEN cpu_registers[a - index_register]
                  ELSE ArrayRead(memory, a)
         /\ cpu_registers' = cpu_registers
         /\ index_register' = index_register]_vars

\* F155 has stored V0 = 0 and V1 = 255 at 0x300 and 0x301
C19_Witness ==
    /\ failure = NoFailure
    /\ opcode = Op(15, 1, 5, 5)
    /\ index_register = 768
    /\ cpu_registers[1] = 255
    /\ ArrayRead(memory, 768) = cpu_registers[0]
    /\ ArrayRead(memory, 769) = 255

(* C20: FX29 maps the digit held in register X to its font sprite: for      *)
(* every register index X and digit d = VX in 0..15 the index register      *)
(* afterwards holds 5 * d, whichever register names the digit.  The code    *)
(* multiplies the register index X, not the digit, by 5.                    *)
C20_CharacterAddressOfDigit ==
    [][(FetchStep /\ IsIndexOp(opcode', 41) /\ cpu_registers[NibbleX(opcode')] \in 0..15) =>
         /\ failure' = NoFailure
         /\ index_register' = 5 * cpu_registers[NibbleX(opcode')]]_vars

(* C21: FX33 with v = VX and I + 2 <= 4095 leaves memory[I], memory[I + 1]  *)
(* and memory[I + 2] each in 0..9 with 100 * memory[I] + 10 * memory[I + 1] *)
(* + memory[I + 2] = v; no other memory cell and no register changes.       *)
C21_StoreBcdDigits ==
    [][(FetchStep /\ IsIndexOp(opcode', 51) /\ index_register + 2 <= MEMORY_SIZE - 1) =>
         LET v == cpu_registers[NibbleX(opcode')]
             i == index_register
         IN  /\ failure' = NoFailure
             /\ \A k \in 0..2 : ArrayRead(memory', i + k) \in 0..9
             /\ 100 * ArrayRead(memory', i) + 10 * ArrayRead(memory', i + 1)
                    + ArrayRead(memory', i + 2) = v
             /\ \A a \in (0..(MEMORY_SIZE - 1)) \ {i, i + 1, i + 2} :
                  ArrayRead(memory', a) = ArrayRead(memory, a)
             /\ cpu_registers' = cpu_registers
             /\ index_register' = index_register]_vars

\* F033 has stored the digits 2, 5, 5 of V0 = 255 at 0x300
C21_Witness ==
    /\ failure = NoFailure
    /\ opcode = Op(15, 0, 3, 3)
    /\ cpu_registers[0] = 255
    /\ index_register = 768
    /\ ArrayRead(memory, 768) = 2
    /\ ArrayRead(memory, 769) = 5
    /\ ArrayRead(memory, 770) = 5

(* C22: each call of the timer-decrement operation decrements the delay     *)
(* timer by exactly 1 if it is nonzero and the sound timer by exactly 1 if  *)
(* it is nonzero, leaves a zero timer at zero, and changes nothing else in  *)
(* the machine; is_sound_active is true exactly when the sound timer is     *)
(* nonzero.                                                                 *)
\* a step of the driver loop that ticks the timers
TimerTick == delay_history'.ticks = delay_history.ticks + 1

C22_DecrementTimers ==
    [][/\ TimerTick =>
            /\ delay_timer' = (IF delay_timer # 0 THEN delay_timer - 1 ELSE 0)
            /\ sound_timer' = (IF sound_timer # 0 THEN sound_timer - 1 ELSE 0)
            /\ UNCHANGED <<memory, cpu_registers, index_register, program_counter,
                           gfx, stack_data, key_states, failure>>
       /\ is_sound_active(Machine') <=> (sound_timer' # 0)]_vars

\* both timers were set to 2 and one tick has brought them to 1
C22_Witness ==
    /\ opcode = Op(15, 0, 1, 8)
    /\ cpu_registers[0] = 2
    /\ delay_timer = 1
    /\ sound_timer = 1

(* C23: timers are decoupled from instruction throughput: an execution      *)
(* cycle changes the delay timer only when the instruction is FX15 and the  *)
(* sound timer only when it is FX18; so after FX15 set the delay timer to   *)
(* v, any interleaving of k timer ticks with other instructions makes a     *)
(* following FX07 read max(v - k, 0) into its register.                     *)
C23_TimersDecoupled ==
    [][FetchStep =>
         /\ delay_timer' # delay_timer => IsIndexOp(opcode', 21)
         /\ sound_timer' # sound_timer => IsIndexOp(opcode', 24)
         /\ IsIndexOp(opcode', 21) =>
              delay_timer' = cpu_registers[NibbleX(opcode')]
         /\ IsIndexOp(opcode', 7) =>
              /\ failure' = NoFailure
              /\ cpu_registers'[NibbleX(opcode')] =
                     (IF delay_history.set > delay_history.ticks
                      THEN delay_history.set - delay_history.ticks ELSE 0)]_vars

\* FX15 set the delay timer to 2, one tick and another instruction later
\* F107 has read 1 into V1
C23_Witness ==
    /\ opcode = Op(15, 1, 0, 7)
    /\ delay_history = [set |-> 2, ticks |-> 1]
    /\ cpu_registers[1] = 1
    /\ cpu_registers[0] = 0

(* C24: 00E0 executed after any sequence of draws leaves every one of the   *)
(* 2048 display cells unlit, whatever they held, and changes no register,   *)
(* memory cell, stack entry or timer.                                       *)
C24_ClearScreen ==
    [][(FetchStep /\ opcode' = 224) =>
         /\ failure' = NoFailure
         /\ \A cell \in 0..(GFX_SIZE - 1) : ArrayRead(gfx', cell) = 0
         /\ program_counter' = program_counter + 2
         /\ UNCHANGED <<memory, cpu_registers, index_register, stack_data,
                        delay_timer, sound_timer, key_states>>]_vars

\* the program drew one sprite row in the last display row and then cleared
C24_Witness ==
    /\ failure = NoFailure
    /\ opcode = 224
    /\ cycles = 5
    /\ cpu_registers[0] = 0
    /\ cpu_registers[1] = 31
    /\ ProgramWord(3) = Op(13, 0, 1, 1)
    /\ gfx = ZeroArray

(* C25: for every 12-bit operand NNN, executing the word ANNN sets the      *)
(* index register to exactly NNN, the family nibble discarded (A123 gives   *)
(* 0x123), and changes no general register.                                 *)
C25_SetIndexRegister ==
    [][(FetchStep /\ opcode' # NoOpcode /\ Family(opcode') = 10) =>
         /\ failure' = NoFailure
         /\ index_register' = opcode' - 40960
         /\ index_register' \in 0..4095
         /\ cpu_registers' = cpu_registers]_vars

\* A123 has run with V1 = 255
C25_Witness ==
    /\ failure = NoFailure
    /\ opcode = Op(10, 1, 2, 3)
    /\ index_register = 291
    /\ cpu_registers[1] = 255

(* C26: for every 12-bit address NNN and byte V0, BNNN leaves the program   *)
(* counter at NNN + V0, the unwrapped 16-bit sum, whatever the program      *)
(* counter was, and leaves V0 unchanged; 1NNN sets the program counter to   *)
(* exactly NNN.                                                             *)
C26_Jumps ==
    [][(FetchStep /\ opcode' # NoOpcode) =>
         /\ Family(opcode') = 11 =>
              /\ failure' = NoFailure
              /\ program_counter' = (opcode' - 45056) + cpu_registers[0]
              /\ cpu_registers' = cpu_registers
         /\ Family(opcode') = 1 =>
              /\ failure' = NoFailure
              /\ program_counter' = opcode' - 4096
              /\ cpu_registers' = cpu_registers]_vars

\* BFFF has run with V0 = 255: the program counter is 0xFFF + 0xFF
C26_Witness ==
    /\ failure = NoFailure
    /\ opcode = Op(11, 15, 15, 15)
    /\ cpu_registers[0] = 255
    /\ program_counter = 4350

(* C27: 8XY1, 8XY2 and 8XY3, for x in 0..14, y in 0..15 and bytes a = VX,   *)
(* b = VY, leave VX = a OR b, a AND b, a XOR b respectively and every other *)
(* register, the flag register VF included, unchanged.                      *)
C27_BitwiseOps ==
    [][(FetchStep /\ opcode' # NoOpcode /\ Family(opcode') = 8
            /\ NibbleN(opcode') \in {1, 2, 3} /\ NibbleX(opcode') \in 0..14) =>
         LET x == NibbleX(opcode')
             a == cpu_registers[x]
             b == cpu_registers[NibbleY(opcode')]
             bit(v, k) == (v \div Pow2(k)) % 2
             combined(k) ==
                 CASE NibbleN(opcode') = 1 -> IF bit(a, k) + bit(b, k) >= 1 THEN 1 ELSE 0
                   [] NibbleN(opcode') = 2 -> IF bit(a, k) + bit(b, k) = 2 THEN 1 ELSE 0
                   [] NibbleN(opcode') = 3 -> IF bit(a, k) + bit(b, k) = 1 THEN 1 ELSE 0
         IN  /\ failure' = NoFailure
             /\ cpu_registers'[x] \in 0..255
             /\ \A k \in 0..7 : bit(cpu_registers'[x], k) = combined(k)
             /\ \A r \in (0..(NUM_REGISTERS - 1)) \ {x} :
                  cpu_registers'[r] = cpu_registers[r]]_vars

\* 80F3 has run with V0 = 3 and VF = 255: V0 is 252 and VF still 255
C27_Witness ==
    /\ failure = NoFailure
    /\ opcode = Op(8, 0, 15, 3)
    /\ cpu_registers[0] = 252
    /\ cpu_registers[15] = 255
    /\ ProgramWord(0) = OpXKK(6, 0, 3)

(* C28: each execution cycle forms the instruction word big-endian as       *)
(* memory[PC] * 256 + memory[PC + 1] and advances the program counter by 2  *)
(* before the instruction runs: after a cycle executing an instruction that *)
(* is not control flow PC = old PC + 2, and after jump 1NNN PC = NNN        *)
(* exactly.                                                                 *)
\* jumps, call, return and the conditional skips
IsControlFlow(op) ==
    Family(op) \in {1, 2, 3, 4, 5, 9, 11, 14} \/ op = 238

C28_FetchBigEndianThenAdvance ==
    [][(FetchStep /\ opcode' # NoOpcode) =>
         /\ opcode' = ArrayRead(memory, program_counter) * 256
                          + ArrayRead(memory, program_counter + 1)
         /\ ~IsControlFlow(opcode') => program_counter' = program_counter + 2
         /\ Family(opcode') = 1 => program_counter' = opcode' % 4096]_vars

\* the first cycle fetched 1FFC at 0x200 and left the program counter at 0xFFC
C28_Witness ==
    /\ failure = NoFailure
    /\ cycles = 1
    /\ opcode = Op(1, 15, 15, 12)
    /\ ProgramWord(0) = Op(1, 15, 15, 12)
    /\ program_counter = 4092

(* C29: the program counter is even in every state reachable from           *)
(* initialization by execution cycles, whatever program is loaded, programs *)
(* with 1NNN, 2NNN, BNNN and return included, and it is below 4094 before   *)
(* every fetch that succeeds.  The code takes jump targets as they come.    *)
C29_ProgramCounterEven ==
    [][/\ program_counter' % 2 = 0
       /\ (FetchStep /\ opcode' # NoOpcode) => program_counter < MEMORY_SIZE - 2]_vars

(* C30: resolving a key wait writes exactly one register: when the driver   *)
(* loop resolves the awaiting-key state while several keys are pressed at   *)
(* once, only the recorded destination register is written, with the value  *)
(* of the first detected key, and the resolution neither writes any other   *)
(* register index nor fails.  The driver's scan goes on after the first     *)
(* key and indexes the registers with 0xF0.                                 *)
\* the first key the scan meets, in its order 0, 1, ..., F
FirstKeyDown(keys) ==
    CHOOSE i \in 0..15 :
        /\ BitAnd(keys, KeyMask(i)) # 0
        /\ \A j \in 0..(i - 1) : BitAnd(keys, KeyMask(j)) = 0

\* a step of the driver loop taken while waiting with some key down
ResolveStep ==
    /\ wait_key_state \in 0..(NUM_REGISTERS - 1)
    /\ key_states # 0
    /\ key_states' = key_states
    /\ cycles' = cycles

CellsUnlitOrLit(cells) ==
    /\ DOMAIN cells \subseteq 0..(GFX_SIZE - 1)
    /\ \A cell \in 0..(GFX_SIZE - 1) : ArrayRead(cells, cell) \in {0, 255}

C31_DisplayCellsUnlitOrLit ==
    [][/\ CellsUnlitOrLit(gfx)
       /\ CellsUnlitOrLit(gfx')
       /\ (FetchStep /\ IsDraw(opcode') /\ failure' = NoFailure) =>
            cpu_registers'[15] =
                (IF \E cell \in 0..(GFX_SIZE - 1) :
                        ArrayRead(gfx, cell) # 0 /\ ArrayRead(gfx', cell) = 0
                 THEN 1 ELSE 0)]_vars

\* a second draw one column to the right has erased cell 58 and lit cell 59,
\* next to cell 57 still lit from the first draw, and reported the collision
C31_Witness ==
    /\ failure = NoFailure
    /\ IsDraw(opcode)
    /\ cpu_registers[15] = 1
    /\ ArrayRead(gfx, 57) = 255
    /\ ArrayRead(gfx, 58) = 0
    /\ ArrayRead(gfx, 59) = 255

====
